---- MODULE Spec2Model ----
(***************************************************************************)
(* Model of IGCexpansion/PSJSModel.py: the pair-site joint-state IGC model *)
(* (class PSJSModel).                                                      *)
(*                                                                         *)
(* Numbers.  The parameter vector x_js is kept in log space.  The entries  *)
(* the model draws are integer multiples k of ln 2, written as the integer *)
(* k, so that np.exp gives 2^k exactly.  Rates are exact rationals         *)
(* <<num, den>> in lowest terms with den > 0; the float results of a       *)
(* division by zero are <<0, 0>> (nan) and <<1, 0>>, <<-1, 0>> (inf, -inf).*)
(* Rounding of float64 is not modelled.                                    *)
(*                                                                         *)
(* Python values.  None is <<>> and a present optional value v is <<v>>    *)
(* (force maps); a dict is a function; a tuple or vector is a sequence,    *)
(* read with the 0-based index of the source through At.  A call's result  *)
(* is a record: outcome "return" with its value, or the name of the        *)
(* exception that left the call (assert statements are enabled).           *)
(***************************************************************************)
EXTENDS Integers, Sequences, FiniteSets, TLC

VARIABLES
    self,   \* the PSJSModel instance: a record of its attributes
    pc,     \* the caller: "new" (no instance yet), "ready", "returned", "exited"
    call    \* the last call made on the instance, with its arguments and result

vars == <<self, pc, call>>

-----------------------------------------------------------------------------
(* Bounds of the model *)

\* separations n = 1 .. MaxN
MaxN == 2

\* log-space IGC parameters are k * ln 2 with k in -MaxLog .. MaxLog
MaxLog == 1

\* force maps constrain parameter indices 0 .. MaxKey
MaxKey == 5

-----------------------------------------------------------------------------
(* Python values *)

None == <<>>

Some(v) == <<v>>

At(seq, i) == seq[i + 1]

Ret(v) == [outcome |-> "return", value |-> v, msg |-> ""]

Raise(e, m) == [outcome |-> e, value |-> <<>>, msg |-> m]

\* seq[:k]
Prefix(seq, k) == SubSeq(seq, 1, IF k < Len(seq) THEN k ELSE Len(seq))

\* seq[k:]
Suffix(seq, k) == SubSeq(seq, (IF k < Len(seq) THEN k ELSE Len(seq)) + 1, Len(seq))

-----------------------------------------------------------------------------
(* float64 arithmetic, exact *)

Abs(a) == IF a < 0 THEN -a ELSE a

RECURSIVE GCD(_, _)
GCD(a, b) == IF b = 0 THEN a ELSE GCD(b, a % b)

Rat(n, d) ==
    LET g == GCD(Abs(n), Abs(d))
        s == IF d < 0 THEN -1 ELSE 1
    IN  <<(s * n) \div g, (s * d) \div g>>

NaN == <<0, 0>>

IsFinite(a) == a[2] # 0

RAdd(a, b) == Rat(a[1] * b[2] + b[1] * a[2], a[2] * b[2])

RSub(a, b) == Rat(a[1] * b[2] - b[1] * a[2], a[2] * b[2])

RMul(a, b) == Rat(a[1] * b[1], a[2] * b[2])

\* a / b on float64 scalars: x / 0 is nan, inf or -inf
RDiv(a, b) ==
    IF b[1] = 0
    THEN IF a[1] = 0 THEN NaN ELSE IF a[1] > 0 THEN <<1, 0>> ELSE <<-1, 0>>
    ELSE Rat(a[1] * b[2], a[2] * b[1])

RECURSIVE RPow(_, _)
RPow(a, n) == IF n = 0 THEN <<1, 1>> ELSE RMul(a, RPow(a, n - 1))

RLeq(a, b) == a[1] * b[2] <= b[1] * a[2]

RECURSIVE Pow2(_)
Pow2(k) == IF k = 0 THEN 1 ELSE 2 * Pow2(k - 1)

\* np.exp of k * ln 2
exp(k) == IF k >= 0 THEN <<Pow2(k), 1>> ELSE <<1, Pow2(-k)>>

Zero == <<0, 1>>

One == <<1, 1>>

-----------------------------------------------------------------------------
(* The point mutation collaborator (class PMModel, module PMModel) *)

PMModel_supported == {"HKY"}

\* The rate table of the collaborator: Q_mut[i, j], i, j in 0 .. 3, a function
\* of its parameter slice alone, positive off the diagonal, rows summing to 0.
HKY_offdiag(x, i, j) ==
    RMul(exp(At(x, j % 3)), IF (i + j) % 2 = 0 THEN exp(At(x, 3)) ELSE One)

HKY_Q_mut(x) ==
    [i \in 0..3, j \in 0..3 |->
        IF i # j THEN HKY_offdiag(x, i, j)
        ELSE LET o == SelectSeq(<<0, 1, 2, 3>>, LAMBDA k : k # i)
             IN  RSub(Zero, RAdd(HKY_offdiag(x, i, o[1]),
                            RAdd(HKY_offdiag(x, i, o[2]), HKY_offdiag(x, i, o[3]))))]

\* PMModel(pm_model, x_pm, force)
PMModel_new(pm, x, f) ==
    [pm_model |-> pm, x_pm |-> x, force |-> f, Q_mut |-> HKY_Q_mut(x)]

\* PMModel.update_by_x_pm(x_pm)
update_by_x_pm(m, x) == [m EXCEPT !.x_pm = x, !.Q_mut = HKY_Q_mut(x)]

-----------------------------------------------------------------------------
(* class PSJSModel *)

supported == {"One rate"}

\* A method that assigns attributes yields the instance it leaves and its result.
Out(s, r) == [self |-> s, result |-> r]

\* unpack_x_js without its closing assertion on the length
unpack_x_js_unchecked(s, x) ==
    IF s.pm_model \notin PMModel_supported THEN Out(s, Raise("AssertionError", ""))
    ELSE IF s.IGC_pm \notin supported THEN Out(s, Raise("AssertionError", ""))
    ELSE IF s.pm_model # "HKY"
    THEN Out(s, Raise("SystemExit", "The point mutation model is not supported."))
    ELSE IF s.IGC_pm # "One rate"
    THEN Out(s, Raise("SystemExit", "The IGC parameterization has not been implemented."))
    ELSE LET num_x_pm == 4
         IN  Out([s EXCEPT !.x_pm = Prefix(x, num_x_pm),
                           !.x_IGC = Suffix(x, num_x_pm),
                           !.x_js = x],
                 Ret(None))

unpack_x_js(s, x) ==
    IF s.pm_model \notin PMModel_supported THEN Out(s, Raise("AssertionError", ""))
    ELSE IF s.IGC_pm \notin supported THEN Out(s, Raise("AssertionError", ""))
    ELSE IF s.pm_model # "HKY"
    THEN Out(s, Raise("SystemExit", "The point mutation model is not supported."))
    ELSE IF s.IGC_pm # "One rate"
    THEN Out(s, Raise("SystemExit", "The IGC parameterization has not been implemented."))
    ELSE LET num_x_pm == 4
             num_x_IGC == 2
             s1 == [s EXCEPT !.x_pm = Prefix(x, num_x_pm),
                             !.x_IGC = Suffix(x, num_x_pm),
                             !.x_js = x]
         IN  IF num_x_pm + num_x_IGC = Len(s1.x_js)
             THEN Out(s1, Ret(None))
             ELSE Out(s1, Raise("AssertionError", ""))

update_by_x_js(s, new_x_js) ==
    LET u == unpack_x_js(s, new_x_js)
    IN  IF u.result.outcome # "return" THEN u
        ELSE Out([u.self EXCEPT !.PMModel = update_by_x_pm(@, u.self.x_pm)], Ret(None))

NoneIfEmpty(d) == IF DOMAIN d = {} THEN None ELSE Some(d)

\* divide_force with key <= num_x_pm for key < num_x_pm
divide_force_offbyone(s) ==
    IF s.force = None THEN Ret(<<None, None>>)
    ELSE IF s.pm_model \notin PMModel_supported THEN Raise("AssertionError", "")
    ELSE IF s.IGC_pm \notin supported THEN Raise("AssertionError", "")
    ELSE IF s.pm_model # "HKY"
    THEN Raise("SystemExit", "The point mutation model is not supported.")
    ELSE IF s.IGC_pm # "One rate"
    THEN Raise("SystemExit", "The IGC parameterization has not been implemented.")
    ELSE LET num_x_pm == 4
             d == s.force[1]
             pm_force == [key \in {k \in DOMAIN d : k <= num_x_pm} |-> d[key]]
             IGC_force == [key \in {k - num_x_pm : k \in {k \in DOMAIN d : ~(k <= num_x_pm)}}
                             |-> d[key + num_x_pm]]
         IN  Ret(<<NoneIfEmpty(pm_force), NoneIfEmpty(IGC_force)>>)

divide_force(s) ==
    IF s.force = None THEN Ret(<<None, None>>)
    ELSE IF s.pm_model \notin PMModel_supported THEN Raise("AssertionError", "")
    ELSE IF s.IGC_pm \notin supported THEN Raise("AssertionError", "")
    ELSE IF s.pm_model # "HKY"
    THEN Raise("SystemExit", "The point mutation model is not supported.")
    ELSE IF s.IGC_pm # "One rate"
    THEN Raise("SystemExit", "The IGC parameterization has not been implemented.")
    ELSE LET num_x_pm == 4
             d == s.force[1]
             pm_force == [key \in {k \in DOMAIN d : k < num_x_pm} |-> d[key]]
             IGC_force == [key \in {k - num_x_pm : k \in {k \in DOMAIN d : ~(k < num_x_pm)}}
                             |-> d[key + num_x_pm]]
         IN  Ret(<<NoneIfEmpty(pm_force), NoneIfEmpty(IGC_force)>>)

init_models(s) ==
    LET u == unpack_x_js(s, s.x_js)
    IN  IF u.result.outcome # "return" THEN u
        ELSE IF u.self.pm_model # "HKY"
        THEN Out(u.self, Raise("SystemExit", "The point mutation model has not been implemented."))
        ELSE LET s1 == [u.self EXCEPT !.state_space_shape = [i \in 1..(u.self.n_js * 2) |-> 4]]
                 f == divide_force(s1)
             IN  IF f.outcome # "return" THEN Out(s1, f)
                 ELSE LET s2 == [s1 EXCEPT !.PMModel = PMModel_new(s1.pm_model, s1.x_pm, f.value[1]),
                                           !.IGC_force = f.value[2]]
                      IN  IF Cardinality({s2.state_space_shape[i] : i \in DOMAIN s2.state_space_shape}) # 1
                          THEN Out(s2, Raise("AssertionError", ""))
                          ELSE update_by_x_js(s2, s2.x_js)

\* lines 20-33: the attributes as __init__ assigns them, before init_models()
new_instance(x, pm, orlg, igc, f, js) ==
    [n_js |-> js, x_js |-> x, x_pm |-> None, x_IGC |-> None,
     IGC_force |-> None, force |-> f, IGC_pm |-> igc, pm_model |-> pm,
     n_orlg |-> orlg, PMModel |-> None, state_space_shape |-> None]

\* PSJSModel(x_js, pm_model, n_orlg, IGC_pm, force, n_js)
PSJSModel_init(x, pm, orlg, igc, f, js) ==
    init_models(new_instance(x, pm, orlg, igc, f, js))

\* [i for i in range(len(state_from)) if state_from[i] != state_to[i]]
pos_list_of(state_from, state_to) ==
    SelectSeq([k \in 1..Len(state_from) |-> k - 1],
              LAMBDA i : At(state_from, i) # At(state_to, i))

\* is_transition_compatible with the second copy test reading state_from[0] twice
is_transition_compatible_samesite(s, transition) ==
    IF Len(s.state_space_shape) # 4 THEN Raise("AssertionError", "")
    ELSE IF Len(transition) # 2 THEN Raise("AssertionError", "")
    ELSE LET state_from == transition[1]
             state_to == transition[2]
         IN  IF ~(Len(state_from) = Len(state_to) /\ Len(state_to) = Len(s.state_space_shape))
             THEN Raise("AssertionError", "")
             ELSE IF state_from = state_to THEN Ret(FALSE)
             ELSE LET pos_list == pos_list_of(state_from, state_to)
                  IN  IF Len(pos_list) > 2 THEN Ret(FALSE)
                      ELSE IF Len(pos_list) = 2
                      THEN IF (pos_list = <<0, 1>> /\ At(state_to, 0) = At(state_from, 2)
                                                   /\ At(state_to, 1) = At(state_from, 3))
                              \/ (pos_list = <<2, 3>> /\ At(state_to, 2) = At(state_from, 0)
                                                      /\ At(state_to, 3) = At(state_from, 0))
                           THEN Ret(TRUE)
                           ELSE Ret(FALSE)
                      ELSE IF Len(pos_list) = 1 THEN Ret(TRUE)
                      ELSE Raise("SystemExit",
                                 "Check is_transition_compatible function in PSJSModel class.")

is_transition_compatible(s, transition) ==
    IF Len(s.state_space_shape) # 4 THEN Raise("AssertionError", "")
    ELSE IF Len(transition) # 2 THEN Raise("AssertionError", "")
    ELSE LET state_from == transition[1]
             state_to == transition[2]
         IN  IF ~(Len(state_from) = Len(state_to) /\ Len(state_to) = Len(s.state_space_shape))
             THEN Raise("AssertionError", "")
             ELSE IF state_from = state_to THEN Ret(FALSE)
             ELSE LET pos_list == pos_list_of(state_from, state_to)
                  IN  IF Len(pos_list) > 2 THEN Ret(FALSE)
                      ELSE IF Len(pos_list) = 2
                      THEN IF (pos_list = <<0, 1>> /\ At(state_to, 0) = At(state_from, 2)
                                                   /\ At(state_to, 1) = At(state_from, 3))
                              \/ (pos_list = <<2, 3>> /\ At(state_to, 2) = At(state_from, 0)
                                                      /\ At(state_to, 3) = At(state_from, 1))
                           THEN Ret(TRUE)
                           ELSE Ret(FALSE)
                      ELSE IF Len(pos_list) = 1 THEN Ret(TRUE)
                      ELSE Raise("SystemExit",
                                 "Check is_transition_compatible function in PSJSModel class.")

\* get_other_pos without its last case
get_other_pos_short(pos) ==
    IF pos = 0 THEN Ret(<<1, 2, 3>>)
    ELSE IF pos = 1 THEN Ret(<<0, 3, 2>>)
    ELSE IF pos = 2 THEN Ret(<<3, 0, 1>>)
    ELSE Raise("SystemExit", "Position out of range.")

get_other_pos(pos) ==
    IF pos = 0 THEN Ret(<<1, 2, 3>>)
    ELSE IF pos = 1 THEN Ret(<<0, 3, 2>>)
    ELSE IF pos = 2 THEN Ret(<<3, 0, 1>>)
    ELSE IF pos = 3 THEN Ret(<<2, 1, 0>>)
    ELSE Raise("SystemExit", "Position out of range.")

\* IGC_init / IGC_p * (1 - (1 - IGC_p) ** n)
IGC_0_not_n_of(IGC_init, IGC_p, n) ==
    RMul(RDiv(IGC_init, IGC_p), RSub(One, RPow(RSub(One, IGC_p), n)))

\* IGC_init / IGC_p * (1 - IGC_p) ** n
IGC_0_and_n_of(IGC_init, IGC_p, n) ==
    RMul(RDiv(IGC_init, IGC_p), RPow(RSub(One, IGC_p), n))

\* lines 171-174: the rate, or the share of it that is IGC
rate_or_proportion(q_ij, q_IGC, proportion) ==
    IF proportion THEN Ret(RDiv(q_IGC, RAdd(q_ij, q_IGC)))
    ELSE Ret(RAdd(q_ij, q_IGC))

\* single_site_rate with the test of the source paralog left out of the first case
single_site_rate_anytract(s, state_from, state_to, pos, IGC_0_not_n, IGC_0_and_n, proportion) ==
    LET o == get_other_pos(pos)
    IN  IF o.outcome # "return" THEN o
        ELSE LET other_paralog_same_pos == o.value[2]
                 q_ij == s.PMModel.Q_mut[At(state_from, pos), At(state_to, pos)]
                 q_IGC ==
                     IF At(state_to, pos) = At(state_from, other_paralog_same_pos)
                     THEN RAdd(IGC_0_not_n, IGC_0_and_n)
                     ELSE Zero
             IN  rate_or_proportion(q_ij, q_IGC, proportion)

\* lines 149-160: one position differs
single_site_rate(s, state_from, state_to, pos, IGC_0_not_n, IGC_0_and_n, proportion) ==
    LET o == get_other_pos(pos)
    IN  IF o.outcome # "return" THEN o
        ELSE LET same_paralog_other_pos == o.value[1]
                 other_paralog_same_pos == o.value[2]
                 other_paralog_other_pos == o.value[3]
                 q_ij == s.PMModel.Q_mut[At(state_from, pos), At(state_to, pos)]
                 q_IGC ==
                     IF At(state_to, pos) = At(state_from, other_paralog_same_pos)
                        /\ At(state_from, same_paralog_other_pos)
                               = At(state_from, other_paralog_other_pos)
                     THEN RAdd(IGC_0_not_n, IGC_0_and_n)
                     ELSE IF At(state_to, pos) = At(state_from, other_paralog_same_pos)
                             /\ At(state_from, same_paralog_other_pos)
                                    # At(state_from, other_paralog_other_pos)
                     THEN IGC_0_not_n
                     ELSE Zero
             IN  rate_or_proportion(q_ij, q_IGC, proportion)

\* lines 161-167: two positions differ
two_site_rate(state_from, state_to, pos_list, IGC_0_and_n, proportion) ==
    LET q_ij == Zero
    IN  IF (pos_list = <<0, 1>> /\ At(state_to, 0) = At(state_from, 2)
                                /\ At(state_to, 1) = At(state_from, 3))
           \/ (pos_list = <<2, 3>> /\ At(state_to, 2) = At(state_from, 0)
                                   /\ At(state_to, 3) = At(state_from, 1))
        THEN rate_or_proportion(q_ij, IGC_0_and_n, proportion)
        ELSE Raise("SystemExit", "Transition not compatible!")

cal_IGC_transition_rate(s, transition, n, proportion) ==
    LET c == is_transition_compatible(s, transition)
    IN  IF c.outcome # "return" THEN c
        ELSE IF ~c.value THEN Raise("AssertionError", "")
        ELSE LET state_from == transition[1]
                 state_to == transition[2]
                 pos_list == pos_list_of(state_from, state_to)
             IN  IF s.IGC_pm = "One rate"
                 THEN IF Len(s.x_IGC) # 2 THEN Raise("ValueError", "")
                      ELSE LET IGC_init == exp(s.x_IGC[1])
                               IGC_p == exp(s.x_IGC[2])
                               IGC_0_not_n == IGC_0_not_n_of(IGC_init, IGC_p, n)
                               IGC_0_and_n == IGC_0_and_n_of(IGC_init, IGC_p, n)
                           IN  IF Len(pos_list) = 1
                               THEN single_site_rate(s, state_from, state_to, pos_list[1],
                                                     IGC_0_not_n, IGC_0_and_n, proportion)
                               ELSE IF Len(pos_list) = 2
                               THEN two_site_rate(state_from, state_to, pos_list,
                                                  IGC_0_and_n, proportion)
                               ELSE Raise("SystemExit", "Transition not compatible! 2")
                 ELSE Raise("SystemExit", "Cal_IGC_transition_rate not implemented yet.")

RECURSIVE IntPow(_, _)
IntPow(b, e) == IF e = 0 THEN 1 ELSE b * IntPow(b, e - 1)

\* the i-th tuple (from 0) of itertools.product(range(base), repeat = len)
product_at(base, len, i) ==
    [d \in 1..len |-> (i \div IntPow(base, len - d)) % base]

get_IGC_transition_rates_BF(s, n, proportion) ==
    LET base == s.state_space_shape[1]
        len == s.n_js * 2
        N == IntPow(base, len)
        \* every pair of the two nested loops, in order, with the predicate's answer
        checked == [k \in 1..(N * N) |->
                      LET tr == <<product_at(base, len, (k - 1) \div N),
                                  product_at(base, len, (k - 1) % N)>>
                      IN  <<tr, is_transition_compatible(s, tr)>>]
        \* hits: the pairs at which the loop body does something, yields or raises
        yielded(hits) ==
            LET rated == [i \in 1..Len(hits) |->
                            IF hits[i][2].outcome # "return" THEN hits[i][2]
                            ELSE cal_IGC_transition_rate(s, hits[i][1], n, proportion)]
                bad == {i \in 1..Len(hits) : rated[i].outcome # "return"}
            IN  IF bad # {}
                THEN rated[CHOOSE i \in bad : \A j \in bad : i <= j]
                ELSE Ret([i \in 1..Len(hits) |->
                            <<hits[i][1][1], hits[i][1][2], rated[i].value>>])
    IN  \* yielded(hits), with hits computed once
        CHOOSE r \in {yielded(hits) :
                        hits \in {SelectSeq(checked,
                                            LAMBDA e : e[2].outcome # "return" \/ e[2].value)}} :
            TRUE

\* get_process_definition appending row_state to column_states
get_process_definition_rowtwice(s, n, proportion) ==
    LET definition(g) ==
            IF g.outcome # "return" THEN g
            ELSE LET row_states == [i \in 1..Len(g.value) |-> g.value[i][1]]
                     transition_rates == [i \in 1..Len(g.value) |-> g.value[i][3]]
                 IN  IF proportion
                     THEN Ret([row_states |-> row_states,
                               column_states |-> row_states,
                               weights |-> transition_rates])
                     ELSE Ret([row_states |-> row_states,
                               column_states |-> row_states,
                               transition_rates |-> transition_rates])
    IN  \* definition(g), with the generator g run once
        CHOOSE r \in {definition(g) : g \in {get_IGC_transition_rates_BF(s, n, proportion)}} :
            TRUE

get_process_definition(s, n, proportion) ==
    LET definition(g) ==
            IF g.outcome # "return" THEN g
            ELSE LET row_states == [i \in 1..Len(g.value) |-> g.value[i][1]]
                     column_states == [i \in 1..Len(g.value) |-> g.value[i][2]]
                     transition_rates == [i \in 1..Len(g.value) |-> g.value[i][3]]
                 IN  IF proportion
                     THEN Ret([row_states |-> row_states,
                               column_states |-> column_states,
                               weights |-> transition_rates])
                     ELSE Ret([row_states |-> row_states,
                               column_states |-> column_states,
                               transition_rates |-> transition_rates])
    IN  \* definition(g), with the generator g run once
        CHOOSE r \in {definition(g) : g \in {get_IGC_transition_rates_BF(s, n, proportion)}} :
            TRUE

-----------------------------------------------------------------------------
(* Inputs *)

\* the 4-coordinate states over the nucleotide alphabet, and all pairs of them
States == {product_at(4, 4, i) : i \in 0..255}

Transitions == States \X States

\* the transitions in which one or two coordinates differ
RateInputs == {tr \in Transitions : Len(pos_list_of(tr[1], tr[2])) \in {1, 2}}

Separations == 1..MaxN

LogVals == (0 - MaxLog)..MaxLog

PM1 == <<-1, -1, -2, 1>>

PM2 == <<-2, -1, -1, 2>>

\* parameter vectors of the right length
IGCVectors == {PM1 \o <<a, b>> : a \in {-1, 1}, b \in LogVals}

\* parameter vectors of a wrong length
BadVectors == {PM1 \o <<0>>, PM1 \o <<0, -1, -1>>}

\* the vectors the assembler is run on
BFVectors == {PM1 \o <<-1, b>> : b \in LogVals} \cup {PM1 \o <<0>>}

\* the vectors an instance is made from and updated with
LifeVectors == IGCVectors \cup {PM2 \o <<-1, 0>>} \cup BadVectors

PMNames == {"HKY", "JC69"}

IGCNames == {"One rate", "Two rates"}

\* force maps: None, and the dicts that fix the parameters of a set of indices
ForceMaps == {None} \cup {Some([k \in K |-> 7 - k]) : K \in SUBSET (0..MaxKey)}

NoCall == [op |-> "none", args |-> <<>>, result |-> Ret(None)]

-----------------------------------------------------------------------------
(* The calls a caller makes on an instance *)

\* a call ends the process when it exits, and otherwise hands its result back
After(r) == IF r.outcome = "SystemExit" THEN "exited" ELSE "returned"

UpdateByXjs(vectors) ==
    /\ pc = "ready"
    /\ \E new_x_js \in vectors :
          LET u == update_by_x_js(self, new_x_js)
          IN  /\ self' = u.self
              /\ call' = [op |-> "update_by_x_js", args |-> <<new_x_js>>, result |-> u.result]
              /\ pc' = After(u.result)

IsTransitionCompatible(transitions) ==
    /\ pc = "ready"
    /\ \E transition \in transitions :
          LET r == is_transition_compatible(self, transition)
          IN  /\ call' = [op |-> "is_transition_compatible", args |-> <<transition>>,
                          result |-> r]
              /\ pc' = After(r)
    /\ UNCHANGED self

CalIGCTransitionRate(transitions) ==
    /\ pc = "ready"
    /\ \E transition \in transitions, n \in Separations, proportion \in BOOLEAN :
          LET r == cal_IGC_transition_rate(self, transition, n, proportion)
          IN  /\ call' = [op |-> "cal_IGC_transition_rate",
                          args |-> <<transition, n, proportion>>, result |-> r]
              /\ pc' = After(r)
    /\ UNCHANGED self

\* GetProcessDefinition with the rate code taking IGC_p off the stored slice
GetProcessDefinition_pops ==
    /\ pc = "ready"
    /\ \E n \in Separations, proportion \in BOOLEAN :
          \E r \in {get_process_definition(self, n, proportion)} :
              /\ call' = [op |-> "get_process_definition", args |-> <<n, proportion>>,
                          result |-> r]
              /\ pc' = After(r)
    /\ self' = [self EXCEPT !.x_IGC = Prefix(@, 1)]

GetProcessDefinition ==
    /\ pc = "ready"
    /\ \E n \in Separations, proportion \in BOOLEAN :
          \E r \in {get_process_definition(self, n, proportion)} :
              /\ call' = [op |-> "get_process_definition", args |-> <<n, proportion>>,
                          result |-> r]
              /\ pc' = After(r)
    /\ UNCHANGED self

\* the caller goes on to its next statement; the result of the last call is dropped
Continue ==
    /\ pc = "returned"
    /\ pc' = "ready"
    /\ call' = NoCall
    /\ UNCHANGED self

InitModels ==
    /\ pc = "new"
    /\ LET u == init_models(self)
       IN  /\ self' = u.self
           /\ call' = [op |-> "init_models",
                       args |-> <<self.x_js, self.pm_model, self.IGC_pm>>,
                       result |-> u.result]
           /\ pc' = IF u.result.outcome = "return" THEN "returned"
                    ELSE IF u.result.outcome = "SystemExit" THEN "exited"
                    ELSE "failed"

DivideForce ==
    /\ pc = "ready"
    /\ LET r == divide_force(self)
       IN  /\ call' = [op |-> "divide_force", args |-> <<>>, result |-> r]
           /\ pc' = After(r)
    /\ UNCHANGED self

-----------------------------------------------------------------------------
(* The life of an instance: construction, updates, the force partition *)

Init ==
    /\ pc = "new"
    /\ call = NoCall
    /\ self \in {new_instance(x, pm, 3, igc, f, 2) :
                    x \in LifeVectors, pm \in PMNames, igc \in IGCNames, f \in ForceMaps}

Next ==
    \/ InitModels
    \/ UpdateByXjs(LifeVectors)
    \/ DivideForce
    \/ Continue

Spec == Init /\ [][Next]_vars

-----------------------------------------------------------------------------
(* Rate computations on a constructed instance *)

InitRates ==
    /\ pc = "ready"
    /\ call = NoCall
    /\ self \in {PSJSModel_init(x, "HKY", 3, "One rate", None, 2).self : x \in IGCVectors}

NextRates ==
    \/ UpdateByXjs(IGCVectors \cup BadVectors)
    \/ IsTransitionCompatible(Transitions)
    \/ CalIGCTransitionRate(RateInputs)
    \/ Continue

SpecRates == InitRates /\ [][NextRates]_vars

-----------------------------------------------------------------------------
(* The assembler on a constructed instance *)

InitBF ==
    /\ pc = "ready"
    /\ call = NoCall
    /\ self \in {PSJSModel_init(x, "HKY", 3, "One rate", None, 2).self :
                    x \in {v \in BFVectors : Len(v) = 6}}

NextBF ==
    \/ UpdateByXjs(BFVectors)
    \/ CalIGCTransitionRate(RateInputs)
    \/ GetProcessDefinition
    \/ Continue

SpecBF == InitBF /\ [][NextBF]_vars

-----------------------------------------------------------------------------
(* What the claims speak of *)

\* the coordinates at which the two states of a transition differ
Differing(tr) == {i \in 0..3 : At(tr[1], i) # At(tr[2], i)}

\* a two-coordinate change that copies one paralog's two sites onto the other
WholeTractCopy(tr) ==
    \/ /\ Differing(tr) = {0, 1}
       /\ At(tr[2], 0) = At(tr[1], 2)
       /\ At(tr[2], 1) = At(tr[1], 3)
    \/ /\ Differing(tr) = {2, 3}
       /\ At(tr[2], 2) = At(tr[1], 0)
       /\ At(tr[2], 3) = At(tr[1], 1)

\* IGC_init/IGC_p * (1 - (1 - IGC_p)^n) for the stored IGC slice
rate_tract_excludes_n(n) ==
    LET init == exp(self.x_IGC[1])
        p == exp(self.x_IGC[2])
    IN  RSub(RDiv(init, p), RMul(RDiv(init, p), RPow(RSub(One, p), n)))

\* IGC_init/IGC_p * (1 - IGC_p)^n for the stored IGC slice
rate_tract_includes_n(n) ==
    LET init == exp(self.x_IGC[1])
        p == exp(self.x_IGC[2])
    IN  RDiv(RMul(init, RPow(RSub(One, p), n)), p)

Returned == call.result.outcome = "return"

RateCall == call.op = "cal_IGC_transition_rate"

\* C1: is_transition_compatible((s, t)) returns true exactly when one coordinate
\* differs, or two differ and they are {0,1} with t[0] = s[2], t[1] = s[3], or
\* {2,3} with t[2] = s[0], t[3] = s[1]; so false when s = t and when more than
\* two coordinates differ.
C1_CompatibleIff ==
    call.op = "is_transition_compatible" =>
        LET tr == call.args[1]
        IN  /\ Returned
            /\ call.result.value = (Cardinality(Differing(tr)) = 1 \/ WholeTractCopy(tr))

C1_Witness ==
    /\ call.op = "is_transition_compatible"
    /\ Returned
    /\ call.args[1] = << <<0, 1, 2, 3>>, <<0, 1, 0, 1>> >>
    /\ call.result.value = TRUE

\* C2: on a transition with exactly one differing coordinate pos, and any
\* separation n >= 1, cal_IGC_transition_rate returns q_mut[s[pos], t[pos]] + igc,
\* where with (same_other, other_same, other_other) = get_other_pos(pos): igc is
\* rate_tract_excludes_n + rate_tract_includes_n if t[pos] = s[other_same] and
\* s[same_other] = s[other_other], rate_tract_excludes_n if t[pos] = s[other_same]
\* and s[same_other] # s[other_other], and 0 otherwise.  The call returns
\* whenever the stored IGC slice has its two entries.
C2_SingleSiteRate ==
    (RateCall /\ Cardinality(Differing(call.args[1])) = 1 /\ ~call.args[3]) =>
        LET s == call.args[1][1]
            t == call.args[1][2]
            n == call.args[2]
            pos == CHOOSE i \in Differing(call.args[1]) : TRUE
            other == get_other_pos(pos).value
            same_other == other[1]
            other_same == other[2]
            other_other == other[3]
            igc == IF At(t, pos) = At(s, other_same) /\ At(s, same_other) = At(s, other_other)
                   THEN RAdd(rate_tract_excludes_n(n), rate_tract_includes_n(n))
                   ELSE IF At(t, pos) = At(s, other_same)
                           /\ At(s, same_other) # At(s, other_other)
                   THEN rate_tract_excludes_n(n)
                   ELSE Zero
        IN  /\ Len(self.x_IGC) = 2 => Returned
            /\ Returned =>
                  call.result.value = RAdd(self.PMModel.Q_mut[At(s, pos), At(t, pos)], igc)

\* the transition (0,2,2,3) -> (0,2,2,1) has the rate q_mut[3, 1], with igc = 0
C2_Witness ==
    /\ RateCall
    /\ Returned
    /\ call.args[1] = << <<0, 2, 2, 3>>, <<0, 2, 2, 1>> >>
    /\ ~call.args[3]
    /\ call.result.value = self.PMModel.Q_mut[3, 1]

C4_ProportionInUnitInterval ==
    (RateCall /\ Returned /\ call.args[3]) =>
        /\ IsFinite(call.result.value)
        /\ RLeq(Zero, call.result.value)
        /\ RLeq(call.result.value, One)

\* C10: the fatal exits are not reached: is_transition_compatible never ends in
\* its sys.exit, and on every transition it accepts cal_IGC_transition_rate
\* passes its assertion and reaches none of its exits nor that of get_other_pos.
C10_NoFatalExit ==
    /\ pc # "exited"
    /\ call.op = "is_transition_compatible" => call.result.outcome # "SystemExit"
    /\ (RateCall /\ is_transition_compatible(self, call.args[1]) = Ret(TRUE)) =>
           call.result.outcome \notin {"AssertionError", "SystemExit"}

C10_Witness ==
    /\ RateCall
    /\ Returned
    /\ Differing(call.args[1]) = {3}
    /\ pc = "returned"

\* C5: get_process_definition returns three sequences of equal length; the pairs
\* (row_states[i], column_states[i]) are exactly the pairs of the full cartesian
\* product that is_transition_compatible accepts, each once, and the i-th entry of
\* the third sequence (weights with proportion, transition_rates without) is
\* cal_IGC_transition_rate on that pair with the same n and flag.  The call
\* returns whenever the stored IGC slice has its two entries.
C5_ProcessDefinition ==
    call.op = "get_process_definition" =>
        /\ Len(self.x_IGC) = 2 => Returned
        /\ Returned =>
              LET n == call.args[1]
                  proportion == call.args[2]
                  v == call.result.value
                  third == IF proportion THEN v.weights ELSE v.transition_rates
                  L == Len(v.row_states)
              IN  /\ DOMAIN v = {"row_states", "column_states",
                                 IF proportion THEN "weights" ELSE "transition_rates"}
                  /\ Len(v.column_states) = L
                  /\ Len(third) = L
                  /\ \A accepted \in {{tr \in Transitions :
                                          is_transition_compatible(self, tr) = Ret(TRUE)}} :
                        /\ {<<v.row_states[i], v.column_states[i]>> : i \in 1..L} = accepted
                        /\ L = Cardinality(accepted)
                  /\ \A i \in 1..L :
                        cal_IGC_transition_rate(self, <<v.row_states[i], v.column_states[i]>>,
                                                n, proportion) = Ret(third[i])

C5_Witness ==
    /\ call.op = "get_process_definition"
    /\ Returned
    /\ ~call.args[2]
    /\ Len(call.result.value.transition_rates) = 3360

\* C9: get_process_definition, and the cal_IGC_transition_rate calls it makes,
\* leave the instance as it was: every attribute, the collaborator's rates
\* included, is the same after the call as before it.
C9_ReadOnly ==
    [][call'.op \in {"get_process_definition", "cal_IGC_transition_rate"} => self' = self]_vars

C9_Witness ==
    /\ call.op = "get_process_definition"
    /\ Returned
    /\ call.args[2]
    /\ Len(call.result.value.weights) > 0

\* C6: after any sequence of update_by_x_js calls, failing ones included, the
\* instance has x_js = x_pm + x_IGC with lengths 4 and 2, and the collaborator's
\* parameters are x_pm.
C6_AtomicUpdate ==
    pc \in {"ready", "returned"} =>
        /\ self.x_js = self.x_pm \o self.x_IGC
        /\ Len(self.x_pm) = 4
        /\ Len(self.x_IGC) = 2
        /\ self.PMModel.x_pm = self.x_pm

\* C7: unpack_x_js, run by init_models and by update_by_x_js, with the models
\* 'HKY' and 'One rate' sets x_pm to the first 4 and x_IGC to the remaining 2
\* entries of the vector; the call ends in an error whenever a model name is not
\* supported or the vector does not have 6 entries.
C7_UnpackChecks ==
    call.op \in {"init_models", "update_by_x_js"} =>
        LET x == call.args[1]
            named == self.pm_model = "HKY" /\ self.IGC_pm = "One rate"
        IN  Returned => /\ named
                        /\ Len(x) = 6
                        /\ self.x_pm = SubSeq(x, 1, 4)
                        /\ self.x_IGC = SubSeq(x, 5, 6)
                        /\ self.x_js = x

C7_Witness ==
    /\ call.op = "update_by_x_js"
    /\ call.result.outcome = "AssertionError"
    /\ Len(call.args[1]) = 7

\* C8: divide_force splits the force map at index 4: each key k < 4 is in the
\* point mutation map with its value, each key k >= 4 is in the IGC map under
\* k - 4 with its value, neither map has other keys, and a map that would be
\* empty is None (both are when force is None or empty).
C8_DivideForce ==
    call.op = "divide_force" =>
        LET F == IF self.force = None THEN <<>> ELSE self.force[1]
            low == {k \in DOMAIN F : k < 4}
            high == {k \in DOMAIN F : k >= 4}
            pm_force == call.result.value[1]
            igc_force == call.result.value[2]
        IN  /\ Returned
            /\ IF low = {} THEN pm_force = None
               ELSE /\ pm_force # None
                    /\ DOMAIN pm_force[1] = low
                    /\ \A k \in low : pm_force[1][k] = F[k]
            /\ IF high = {} THEN igc_force = None
               ELSE /\ igc_force # None
                    /\ DOMAIN igc_force[1] = {k - 4 : k \in high}
                    /\ \A k \in high : igc_force[1][k - 4] = F[k]

C8_Witness ==
    /\ call.op = "divide_force"
    /\ Returned
    /\ self.force # None
    /\ DOMAIN self.force[1] = {3, 4, 5}
    /\ call.result.value[1] # None
    /\ DOMAIN call.result.value[2][1] = {0, 1}

====
